---- MODULE Spec2Model ----
(***************************************************************************)
(* CountingWords (src/CountingWords.py): a class of static methods that    *)
(* count whitespace-delimited words, directly or from a file, filter a     *)
(* tally by a minimum count, and recompute the tally through map, group    *)
(* and reduce stages.                                                      *)
(*                                                                         *)
(* A Python str is a sequence of one-character strings; a dict is a        *)
(* function from its keys to its values (dict equality ignores insertion   *)
(* order, and so does function equality).  A Python value whose type       *)
(* matters is a record [type, ...].                                        *)
(***************************************************************************)
EXTENDS Integers, Sequences, FiniteSets, TLC

VARIABLES
    op,        \* the method the caller entered
    pc,        \* where the call stands
    corpus,    \* count_words / apply_map: the corpus argument
    filter,    \* count_words / count_words_from_files: the filter argument
    ret,       \* the dict the latest call returned
    err,       \* the exception that reached the caller
    prev,      \* filter_function: the results argument of the latest call
    mins,      \* filter_function: the min_occurrences of the calls so far
    pairs,     \* apply_map's result / group_function's map_results argument
    grouped,   \* group_function's result
    file,      \* count_words_from_files: what file_path names
    handle,    \* count_words_from_files: the file object of the with statement
    pending,   \* count_words_from_files: the exception leaving the with body
    fileText,  \* count_words_from_files: what file.read() returned
    gen,       \* map_function: the generator object returned
    pass,      \* map_function: which iteration over gen the caller is in
    first,     \* map_function: the pairs the first iteration received
    second     \* map_function: the pairs the second iteration received

vars == <<op, pc, corpus, filter, ret, err, prev, mins, pairs, grouped,
          file, handle, pending, fileText, gen, pass, first, second>>

\* ------------------------------------------------------------------ bounds
\* Total number of characters of an input (a corpus, a text, a file).
MaxChars == 3
\* Number of strings of a corpus.
MaxCorpus == 3
\* Largest threshold tried.
MaxFilter == 3

\* ------------------------------------------------------ characters, strings
Letters == {"a", "A"}
Spaces == {" ", "\n"}
Chars == Letters \cup Spaces

\* str.isspace of one character, as str.split() with no separator uses it
IsSpace(c) == c \in Spaces

\* str.lower of one character
LowerChar(c) == IF c = "A" THEN "a" ELSE c

\* str.lower
Lower(s) == [i \in 1..Len(s) |-> LowerChar(s[i])]

RECURSIVE StringsOfLen(_)
StringsOfLen(n) ==
    IF n = 0 THEN {<<>>}
    ELSE {s \o <<c>> : s \in StringsOfLen(n - 1), c \in Chars}

StringsUpTo(n) == UNION {StringsOfLen(k) : k \in 0..n}

\* Python values
None == [type |-> "NoneType", val |-> 0]
PyNum(n) == [type |-> "int", val |-> n]
PyStr(s) == [type |-> "str", chars |-> s]
PyInt == [type |-> "int", chars |-> <<>>]
PyList(items) == [type |-> "list", items |-> items]
PyTuple(items) == [type |-> "tuple", items |-> items]
PyNone == [type |-> "NoneType", items |-> <<>>]

IsStr(v) == v.type = "str"

\* the lists of exactly k strings with at most n characters in all
RECURSIVE ListsOf(_, _)
ListsOf(k, n) ==
    IF k = 0 THEN {<<>>}
    ELSE UNION {{<<PyStr(s)>> \o r : r \in ListsOf(k - 1, n - Len(s))} :
                s \in StringsUpTo(n)}

\* the corpora that are lists of strings
Corpora == {PyList(l) : l \in UNION {ListsOf(k, MaxChars) : k \in 0..MaxCorpus}}

\* corpora that are not lists of strings
IllTyped ==
    { PyNone,
      PyTuple(<<>>),
      PyTuple(<<PyStr(<<"a">>), PyStr(<<"A", " ", "a">>)>>),
      PyTuple(<<PyInt>>),
      PyList(<<PyInt>>),
      PyList(<<PyStr(<<"a">>), PyInt>>),
      PyList(<<PyInt, PyStr(<<"a", " ", "a">>)>>) }

Filters == {None} \cup {PyNum(n) : n \in 0..MaxFilter}

\* --------------------------------------------------------------- exceptions
NoError == [type |-> "none", msg |-> ""]
Raise(t, m) == [type |-> t, msg |-> m]

EmptyDict == <<>>

\* ------------------------------------------------------------ str.join/split
\* ' '.join(items): TypeError unless every item is a str (checked by the caller)
RECURSIVE JoinSpace(_)
JoinSpace(items) ==
    IF Len(items) = 0 THEN <<>>
    ELSE IF Len(items) = 1 THEN items[1].chars
    ELSE items[1].chars \o <<" ">> \o JoinSpace(Tail(items))

\* str.split() with no separator: scan left to right, a run of whitespace ends
\* the current word, empty fragments are never produced.
RECURSIVE SplitScan(_, _, _, _)
SplitScan(s, i, cur, acc) ==
    IF i > Len(s) THEN (IF cur = <<>> THEN acc ELSE Append(acc, cur))
    ELSE IF IsSpace(s[i])
         THEN SplitScan(s, i + 1, <<>>, IF cur = <<>> THEN acc ELSE Append(acc, cur))
         ELSE SplitScan(s, i + 1, Append(cur, s[i]), acc)

Split(s) == SplitScan(s, 1, <<>>, <<>>)

\* d[k] = v on a dict
DictSet(d, k, v) == [x \in DOMAIN d \cup {k} |-> IF x = k THEN v ELSE d[x]]

\* for word in words: if word in word_count: word_count[word] += 1
\*                    else: word_count[word] = 1
\* faulty variant: a word seen again is set to 1 instead of incremented
RECURSIVE TallyLoopNoIncrement(_, _, _)
TallyLoopNoIncrement(words, i, word_count) ==
    IF i > Len(words) THEN word_count
    ELSE TallyLoopNoIncrement(words, i + 1, DictSet(word_count, words[i], 1))

RECURSIVE TallyLoop(_, _, _)
TallyLoop(words, i, word_count) ==
    IF i > Len(words) THEN word_count
    ELSE LET word == words[i] IN
         TallyLoop(words, i + 1,
                   IF word \in DOMAIN word_count
                   THEN DictSet(word_count, word, word_count[word] + 1)
                   ELSE DictSet(word_count, word, 1))

\* {word: count for word, count in word_count.items() if count >= filter}
FilterComprehension(word_count, f) ==
    [word \in {w \in DOMAIN word_count : word_count[w] >= f} |-> word_count[word]]

\* ----------------------------------------------------------- count_words
\* the outcome of count_words(corpus, filter): the exception raised, if any,
\* and the dict returned otherwise
count_words(c, f) ==
    IF c.type # "list"
    THEN [err |-> Raise("AssertionError",
                        "The corpus to analyse needs to be a list of strings"),
          ret |-> EmptyDict]
    ELSE IF \E i \in 1..Len(c.items) : ~IsStr(c.items[i])
    THEN [err |-> Raise("TypeError", "sequence item: expected str instance"),
          ret |-> EmptyDict]
    ELSE LET corpus_text == JoinSpace(c.items)
             words == Split(corpus_text)
             word_count == TallyLoop(words, 1, EmptyDict)
         IN [err |-> NoError,
             ret |-> IF f # None THEN FilterComprehension(word_count, f.val)
                     ELSE word_count]

\* --------------------------------------------------- count_words_from_files
FileKinds == {"missing", "denied", "directory", "undecodable", "regular"}

\* open(file_path, 'r'): the exception it raises, NoError when it returns a
\* file object
OpenFile(f) ==
    CASE f.kind = "missing" ->
           Raise("FileNotFoundError", "[Errno 2] No such file or directory")
      [] f.kind = "denied" ->
           Raise("PermissionError", "[Errno 13] Permission denied")
      [] f.kind = "directory" ->
           Raise("IsADirectoryError", "[Errno 21] Is a directory")
      [] OTHER -> NoError

\* file.read(): the exception it raises, NoError when it returns the content
ReadFile(f) ==
    IF f.kind = "undecodable"
    THEN Raise("UnicodeDecodeError", "codec can't decode byte")
    ELSE NoError

\* faulty variant: open/read/close with no finally: an exception skips the close
WithExitLeak(h, exc) == IF exc = NoError THEN "closed" ELSE h

\* the with statement's exit: the file object is closed whether the body
\* ended normally or by an exception
WithExit(h, exc) == "closed"

\* faulty variant: a bare raise, the interpreter's own exception reaches the caller
ExceptClauseReraise(exc) == exc

\* except FileNotFoundError: raise FileNotFoundError("The specified ...")
\* any other exception is not caught
ExceptClause(exc) ==
    IF exc.type = "FileNotFoundError"
    THEN Raise("FileNotFoundError", "The specified file does not exist.")
    ELSE exc

\* faulty variant: count > filter in the file path only
FileTallyStrict(content, f) ==
    LET words == Split(content)
        word_count == TallyLoop(words, 1, EmptyDict)
    IN IF f # None
       THEN [w \in {x \in DOMAIN word_count : word_count[x] > f.val} |-> word_count[w]]
       ELSE word_count

\* words = corpus.split(), the tally loop, the filter
FileTally(content, f) ==
    LET words == Split(content)
        word_count == TallyLoop(words, 1, EmptyDict)
    IN IF f # None THEN FilterComprehension(word_count, f.val) ELSE word_count

\* ---------------------------------------------------------- filter_function
\* the default of min_occurrences
DefaultMinOccurrences == 4

\* faulty variant: v > min_occurrences
filter_function_strict(results, min_occurrences) ==
    [k \in {x \in DOMAIN results : results[x] > min_occurrences} |-> results[k]]

\* faulty variant: the comparison inverted, v <= min_occurrences
filter_function_inverted(results, min_occurrences) ==
    [k \in {x \in DOMAIN results : results[x] <= min_occurrences} |-> results[k]]

filter_function(results, min_occurrences) ==
    [k \in {x \in DOMAIN results : results[x] >= min_occurrences} |-> results[k]]

\* ------------------------------------------------------------- map_function
\* calling a generator function runs none of its body
NewGenerator(t) == [state |-> "created", text |-> t, words |-> <<>>, idx |-> 0]

\* faulty variant: text.split(), the words keep their case
GenStartNoLower(g) ==
    IF g.state = "created"
    THEN [g EXCEPT !.state = "suspended", !.words = Split(g.text)]
    ELSE g

\* the first next() evaluates text.lower().split() and enters the loop
GenStart(g) ==
    IF g.state = "created"
    THEN [g EXCEPT !.state = "suspended", !.words = Split(Lower(g.text))]
    ELSE g

\* faulty variant: a restartable iterable, the end of one iteration rewinds it
GenNextRestartable(g) ==
    LET h == IF g.state = "created"
             THEN [g EXCEPT !.state = "suspended", !.words = Split(Lower(g.text))]
             ELSE g
    IN IF h.idx < Len(h.words)
       THEN [gen |-> [h EXCEPT !.idx = h.idx + 1], stop |-> FALSE,
             value |-> <<h.words[h.idx + 1], 1>>]
       ELSE [gen |-> [h EXCEPT !.idx = 0], stop |-> TRUE, value |-> <<<<>>, 0>>]

\* next(gen): the generator after it, whether it raised StopIteration, and the
\* pair it yielded otherwise.  A finished generator raises StopIteration on
\* every later next(); iter(gen) is gen itself.
GenNext(g) ==
    LET h == GenStart(g) IN
    IF h.state = "suspended" /\ h.idx < Len(h.words)
    THEN [gen |-> [h EXCEPT !.idx = h.idx + 1], stop |-> FALSE,
          value |-> <<h.words[h.idx + 1], 1>>]
    ELSE [gen |-> [h EXCEPT !.state = "finished", !.words = <<>>, !.idx = 0],
          stop |-> TRUE, value |-> <<<<>>, 0>>]

\* for map_result in gen: results.append(map_result)
RECURSIVE Drain(_, _)
Drain(g, results) ==
    LET r == GenNext(g) IN
    IF r.stop THEN results ELSE Drain(r.gen, Append(results, r.value))

map_function(t) == NewGenerator(t)

\* ---------------------------------------------------------------- apply_map
RECURSIVE ApplyMapLoop(_, _, _)
ApplyMapLoop(data, i, results) ==
    IF i > Len(data) THEN results
    ELSE ApplyMapLoop(data, i + 1, Drain(map_function(data[i].chars), results))

apply_map(data) == ApplyMapLoop(data, 1, <<>>)

\* ----------------------------------------------------------- group_function
\* faulty variant: a key seen again gets a fresh list instead of an append
RECURSIVE GroupLoopOverwrite(_, _, _)
GroupLoopOverwrite(map_results, i, group_results) ==
    IF i > Len(map_results) THEN group_results
    ELSE GroupLoopOverwrite(map_results, i + 1,
                            DictSet(group_results, map_results[i][1],
                                    <<map_results[i][2]>>))

RECURSIVE GroupLoop(_, _, _)
GroupLoop(map_results, i, group_results) ==
    IF i > Len(map_results) THEN group_results
    ELSE LET key == map_results[i][1]
             value == map_results[i][2]
         IN GroupLoop(map_results, i + 1,
                      IF key \notin DOMAIN group_results
                      THEN DictSet(group_results, key, <<value>>)
                      ELSE DictSet(group_results, key,
                                   Append(group_results[key], value)))

group_function(map_results) == GroupLoop(map_results, 1, EmptyDict)

\* ---------------------------------------------------------- reduce_function
RECURSIVE ReduceLoop(_, _, _)
ReduceLoop(values, i, total) ==
    IF i > Len(values) THEN total
    ELSE ReduceLoop(values, i + 1, total + values[i])

reduce_function(key, values) == <<key, ReduceLoop(values, 1, 0)>>

\* ------------------------------------------------------------- apply_reduce
apply_reduce(group_results) ==
    [key \in DOMAIN group_results |->
        reduce_function(key, group_results[key])[2]]

\* ------------------------------------------------------------------- inputs
\* the results dicts handed to filter_function directly
MaxCount == 3
KeySample == {<<"a">>, <<"A">>, <<"a", "a">>}
Mappings == UNION {[W -> 0..MaxCount] : W \in SUBSET KeySample}

MinOccurrences == (0..MaxFilter) \cup {DefaultMinOccurrences}

\* the (word, count) sequences handed to group_function directly
MaxPairs == 3
MaxPairCount == 2
WordSample == {<<"a">>, <<"b">>}
PairSeqs == UNION {[1..n -> WordSample \X (1..MaxPairCount)] : n \in 0..MaxPairs}

NoFile == [kind |-> "none", content |-> <<>>]
Files == {[kind |-> k, content |-> <<>>] : k \in FileKinds \ {"regular"}}
         \cup {[kind |-> "regular", content |-> s] : s \in StringsUpTo(MaxChars)}

\* ---------------------------------------------------------------- the calls
Init ==
    /\ op = "none"
    /\ pc = "idle"
    /\ corpus = PyNone
    /\ filter = None
    /\ ret = EmptyDict
    /\ err = NoError
    /\ prev = EmptyDict
    /\ mins = <<>>
    /\ pairs = <<>>
    /\ grouped = EmptyDict
    /\ file = NoFile
    /\ handle = "none"
    /\ pending = NoError
    /\ fileText = <<>>
    /\ gen = NewGenerator(<<>>)
    /\ pass = 0
    /\ first = <<>>
    /\ second = <<>>

\* count_words(corpus, filter)
CallCountWords ==
    /\ pc = "idle"
    /\ \E c \in Corpora \cup IllTyped, f \in Filters :
         LET out == count_words(c, f) IN
         /\ op' = "count_words"
         /\ corpus' = c
         /\ filter' = f
         /\ ret' = out.ret
         /\ err' = out.err
         /\ pc' = IF out.err = NoError THEN "returned" ELSE "raised"
    /\ UNCHANGED <<prev, mins, pairs, grouped, file, handle, pending, fileText,
                   gen, pass, first, second>>

\* filter_function(results, min_occurrences) on a dict of the caller's
CallFilterFunction ==
    /\ pc = "idle"
    /\ \E r \in Mappings, m \in MinOccurrences :
         /\ op' = "filter_function"
         /\ prev' = r
         /\ mins' = <<m>>
         /\ ret' = filter_function(r, m)
         /\ pc' = "filtered"
    /\ UNCHANGED <<corpus, filter, err, pairs, grouped, file, handle, pending,
                   fileText, gen, pass, first, second>>

\* filter_function(ret, min_occurrences) on the dict count_words returned
\* without a filter
FilterCounted ==
    /\ op = "count_words" /\ pc = "returned" /\ filter = None
    /\ \E m \in MinOccurrences :
         /\ prev' = ret
         /\ mins' = <<m>>
         /\ ret' = filter_function(ret, m)
         /\ pc' = "filtered"
    /\ UNCHANGED <<op, corpus, filter, err, pairs, grouped, file, handle,
                   pending, fileText, gen, pass, first, second>>

\* filter_function again, on what filter_function returned
FilterAgain ==
    /\ op = "filter_function" /\ pc = "filtered"
    /\ \E m \in MinOccurrences :
         /\ prev' = ret
         /\ mins' = Append(mins, m)
         /\ ret' = filter_function(ret, m)
         /\ pc' = "refiltered"
    /\ UNCHANGED <<op, corpus, filter, err, pairs, grouped, file, handle,
                   pending, fileText, gen, pass, first, second>>

\* apply_map(data)
CallApplyMap ==
    /\ pc = "idle"
    /\ \E c \in Corpora :
         /\ op' = "apply_map"
         /\ corpus' = c
         /\ pairs' = apply_map(c.items)
         /\ pc' = "mapped"
    /\ UNCHANGED <<filter, ret, err, prev, mins, grouped, file, handle, pending,
                   fileText, gen, pass, first, second>>

\* group_function(map_results) on apply_map's result
GroupMapped ==
    /\ pc = "mapped"
    /\ grouped' = group_function(pairs)
    /\ pc' = "grouped"
    /\ UNCHANGED <<op, corpus, filter, ret, err, prev, mins, pairs, file, handle,
                   pending, fileText, gen, pass, first, second>>

\* group_function(map_results) on a sequence of the caller's
CallGroupFunction ==
    /\ pc = "idle"
    /\ \E p \in PairSeqs :
         /\ op' = "group_function"
         /\ pairs' = p
         /\ grouped' = group_function(p)
         /\ pc' = "grouped"
    /\ UNCHANGED <<corpus, filter, ret, err, prev, mins, file, handle, pending,
                   fileText, gen, pass, first, second>>

\* apply_reduce(group_results) on group_function's result
ApplyReduce ==
    /\ pc = "grouped"
    /\ ret' = apply_reduce(grouped)
    /\ pc' = "reduced"
    /\ UNCHANGED <<op, corpus, filter, err, prev, mins, pairs, grouped, file,
                   handle, pending, fileText, gen, pass, first, second>>

\* count_words_from_files(file_path, filter) is entered
CallCountWordsFromFiles ==
    /\ pc = "idle"
    /\ \E f \in Files, t \in Filters :
         /\ op' = "count_words_from_files"
         /\ file' = f
         /\ filter' = t
         /\ pc' = "open"
    /\ UNCHANGED <<corpus, ret, err, prev, mins, pairs, grouped, handle, pending,
                   fileText, gen, pass, first, second>>

\* with open(file_path, 'r') as file: a failure to open acquires no handle
\* and goes through the except clause
FileOpen ==
    /\ pc = "open"
    /\ LET exc == OpenFile(file) IN
         IF exc = NoError
         THEN /\ handle' = "open"
              /\ pc' = "read"
              /\ err' = err
         ELSE /\ handle' = handle
              /\ err' = ExceptClause(exc)
              /\ pc' = "raised"
    /\ UNCHANGED <<op, corpus, filter, ret, prev, mins, pairs, grouped, file,
                   pending, fileText, gen, pass, first, second>>

\* corpus = file.read()
FileRead ==
    /\ pc = "read"
    /\ LET exc == ReadFile(file) IN
         /\ pending' = exc
         /\ fileText' = IF exc = NoError THEN file.content ELSE fileText
    /\ pc' = "exit"
    /\ UNCHANGED <<op, corpus, filter, ret, err, prev, mins, pairs, grouped,
                   file, handle, gen, pass, first, second>>

\* the with block is left: the handle is released, then an exception of the
\* body goes through the except clause
FileExit ==
    /\ pc = "exit"
    /\ handle' = WithExit(handle, pending)
    /\ IF pending = NoError
       THEN /\ pc' = "count"
            /\ err' = err
       ELSE /\ pc' = "raised"
            /\ err' = ExceptClause(pending)
    /\ UNCHANGED <<op, corpus, filter, ret, prev, mins, pairs, grouped, file,
                   pending, fileText, gen, pass, first, second>>

\* the words of the content are split, tallied, filtered and returned
FileCount ==
    /\ pc = "count"
    /\ ret' = FileTally(fileText, filter)
    /\ pc' = "returned"
    /\ UNCHANGED <<op, corpus, filter, err, prev, mins, pairs, grouped, file,
                   handle, pending, fileText, gen, pass, first, second>>

\* gen = map_function(text)
CallMapFunction ==
    /\ pc = "idle"
    /\ \E t \in StringsUpTo(MaxChars) :
         /\ op' = "map_function"
         /\ gen' = map_function(t)
         /\ pass' = 1
         /\ pc' = "iterating"
    /\ UNCHANGED <<corpus, filter, ret, err, prev, mins, pairs, grouped, file,
                   handle, pending, fileText, first, second>>

\* one step of "for pair in gen": next(gen) yields a pair or ends the loop
GenStep ==
    /\ pc = "iterating"
    /\ LET r == GenNext(gen) IN
         /\ gen' = r.gen
         /\ IF r.stop
            THEN /\ pc' = IF pass = 1 THEN "exhausted" ELSE "reiterated"
                 /\ UNCHANGED <<first, second>>
            ELSE /\ pc' = pc
                 /\ first' = IF pass = 1 THEN Append(first, r.value) ELSE first
                 /\ second' = IF pass = 2 THEN Append(second, r.value) ELSE second
    /\ UNCHANGED <<op, corpus, filter, ret, err, prev, mins, pairs, grouped,
                   file, handle, pending, fileText, pass>>

\* a second "for pair in gen" over the same generator object
IterateAgain ==
    /\ pc = "exhausted"
    /\ pass' = 2
    /\ pc' = "iterating"
    /\ UNCHANGED <<op, corpus, filter, ret, err, prev, mins, pairs, grouped,
                   file, handle, pending, fileText, gen, first, second>>

Next ==
    \/ CallCountWords
    \/ CallFilterFunction
    \/ FilterCounted
    \/ FilterAgain
    \/ CallApplyMap
    \/ GroupMapped
    \/ CallGroupFunction
    \/ ApplyReduce
    \/ CallCountWordsFromFiles
    \/ FileOpen
    \/ FileRead
    \/ FileExit
    \/ FileCount
    \/ CallMapFunction
    \/ GenStep
    \/ IterateAgain

Spec == Init /\ [][Next]_vars

\* ------------------------------------------------------------ what is claimed
\* A token is a maximal run of non-whitespace characters: <<i, j>> is one of
\* s when s[i..j] holds no whitespace and cannot be extended on either side.
TokenSpans(s) ==
    {sp \in (1..Len(s)) \X (1..Len(s)) :
        /\ sp[1] <= sp[2]
        /\ \A k \in sp[1]..sp[2] : ~IsSpace(s[k])
        /\ sp[1] = 1 \/ IsSpace(s[sp[1] - 1])
        /\ sp[2] = Len(s) \/ IsSpace(s[sp[2] + 1])}

\* the tokens of s in the order they stand in s
OrderedTokens(s) ==
    LET spans == TokenSpans(s) IN
    [n \in 1..Cardinality(spans) |->
        LET sp == CHOOSE x \in spans :
                      Cardinality({y \in spans : y[1] < x[1]}) = n - 1
        IN SubSeq(s, sp[1], sp[2])]

\* the token occurrences <<k, i, j>> of a list of strings, string by string
TokenOccurrences(items) ==
    UNION {{<<k, sp[1], sp[2]>> : sp \in TokenSpans(items[k].chars)} :
           k \in 1..Len(items)}

WordOf(items, o) == SubSeq(items[o[1]].chars, o[2], o[3])

RECURSIVE SumValues(_)
SumValues(d) ==
    IF DOMAIN d = {} THEN 0
    ELSE LET k == CHOOSE x \in DOMAIN d : TRUE IN
         d[k] + SumValues([x \in DOMAIN d \ {k} |-> d[x]])

RECURSIVE SumSeq(_)
SumSeq(q) == IF q = <<>> THEN 0 ELSE Head(q) + SumSeq(Tail(q))

\* the tally of a list of words, each word with its number of occurrences
TallyOf(ws) ==
    [w \in {ws[i] : i \in DOMAIN ws} |-> Cardinality({i \in DOMAIN ws : ws[i] = w})]

\* C1: count_words(corpus) without a threshold returns the dict whose keys are
\* exactly the distinct case-sensitive tokens of the corpus (of its strings,
\* and of the single-space-joined text alike), each mapped to its number of
\* occurrences; the counts sum to the number of tokens.
C1_ExactTally ==
    (op = "count_words" /\ pc = "returned" /\ filter = None) =>
        LET occ == TokenOccurrences(corpus.items)
            joined == OrderedTokens(JoinSpace(corpus.items))
        IN /\ err = NoError
           /\ DOMAIN ret = {WordOf(corpus.items, o) : o \in occ}
           /\ \A w \in DOMAIN ret :
                ret[w] = Cardinality({o \in occ : WordOf(corpus.items, o) = w})
           /\ SumValues(ret) = Cardinality(occ)
           /\ ret = TallyOf(joined)
           /\ SumValues(ret) = Len(joined)

C1_Witness ==
    /\ op = "count_words" /\ pc = "returned" /\ filter = None
    /\ Len(corpus.items) >= 2
    /\ Cardinality(DOMAIN ret) >= 2
    /\ \E w \in DOMAIN ret : ret[w] >= 2

\* C2: count_words(corpus, T) and filter_function(count_words(corpus), T) are
\* the same dict: the entries of the unfiltered tally with a count >= T, the
\* counts unchanged.
C2_FilterPathsAgree ==
    /\ (op = "count_words" /\ pc = "filtered") =>
          /\ ret = count_words(corpus, PyNum(mins[1])).ret
          /\ DOMAIN ret = {w \in DOMAIN prev : prev[w] >= mins[1]}
          /\ \A w \in DOMAIN ret : ret[w] = prev[w]
    /\ (op = "count_words" /\ pc = "returned" /\ filter # None) =>
          LET whole == count_words(corpus, None).ret IN
          /\ ret = filter_function(whole, filter.val)
          /\ DOMAIN ret = {w \in DOMAIN whole : whole[w] >= filter.val}
          /\ \A w \in DOMAIN ret : ret[w] = whole[w]

C2_Witness ==
    /\ op = "count_words" /\ pc = "filtered"
    /\ ret # EmptyDict
    /\ ret # prev
    /\ ret = count_words(corpus, PyNum(mins[1])).ret

LowerItems(items) == [i \in 1..Len(items) |-> PyStr(Lower(items[i].chars))]

\* C3: apply_reduce(group_function(apply_map(corpus))) is the dict count_words
\* returns, without a threshold, for the corpus with every string lowercased.
C3_PipelineMatchesLowercasedCount ==
    (op = "apply_map" /\ pc = "reduced") =>
        ret = count_words(PyList(LowerItems(corpus.items)), None).ret

C3_Witness ==
    /\ op = "apply_map" /\ pc = "reduced"
    /\ Len(corpus.items) >= 2
    /\ \E i \in 1..Len(corpus.items) : Lower(corpus.items[i].chars) # corpus.items[i].chars
    /\ ret # count_words(corpus, None).ret
    /\ \E w \in DOMAIN ret : ret[w] >= 2

IsSequenceOfStrings(c) ==
    /\ c.type \in {"list", "tuple"}
    /\ \A i \in 1..Len(c.items) : IsStr(c.items[i])

\* C4: count_words fails with a TypeError, returning no dict, exactly when its
\* corpus is not a sequence of strings (not a list at all, or a list holding a
\* non-string).
C4_TypeErrorIffNotStrings ==
    (op = "count_words" /\ pc \in {"returned", "raised"}) =>
        ((pc = "raised" /\ err.type = "TypeError") <=> ~IsSequenceOfStrings(corpus))

\* C5: count_words_from_files on a path that names no existing file ends in a
\* FileNotFoundError saying the file does not exist and returns no dict,
\* whatever the threshold; on a readable file it never raises that error.
C5_NotFound ==
    (op = "count_words_from_files") =>
        /\ (file.kind = "missing" /\ pc # "open") =>
              /\ pc = "raised"
              /\ err = Raise("FileNotFoundError", "The specified file does not exist.")
              /\ ret = EmptyDict
        /\ file.kind = "regular" => (pc # "raised" /\ err.type # "FileNotFoundError")

C5_Witness ==
    /\ op = "count_words_from_files" /\ file.kind = "missing"
    /\ pc = "raised" /\ filter # None
    /\ err.type = "FileNotFoundError"

\* C6: for a readable file of content s, count_words_from_files(path, T)
\* returns the dict count_words([s], T) returns.
C6_FileMatchesDirect ==
    (op = "count_words_from_files" /\ pc = "returned") =>
        LET direct == count_words(PyList(<<PyStr(file.content)>>), filter) IN
        /\ direct.err = NoError
        /\ err = NoError
        /\ ret = direct.ret

C6_Witness ==
    /\ op = "count_words_from_files" /\ pc = "returned"
    /\ filter # None
    /\ Cardinality(DOMAIN TallyOf(OrderedTokens(file.content))) >= 2
    /\ ret # EmptyDict

\* C7: filter_function(filter_function(r, T1), T2) = filter_function(r, T1)
\* whenever T2 <= T1.
C7_FilterIdempotent ==
    (op = "filter_function" /\ pc = "refiltered" /\ mins[2] <= mins[1]) =>
        ret = prev

C7_Witness ==
    /\ op = "filter_function" /\ pc = "refiltered"
    /\ mins[2] < mins[1]
    /\ ret = prev
    /\ Cardinality(DOMAIN ret) >= 2

\* the pairs map_function is to produce for a text
PairsOf(t) == [n \in 1..Len(OrderedTokens(t)) |-> <<Lower(OrderedTokens(t)[n]), 1>>]

\* C8 as stated: after the returned sequence was consumed to its end, iterating
\* the same object again yields the full sequence of pairs a second time.
C8_Restartable ==
    (op = "map_function" /\ pc = "reiterated") =>
        (first = PairsOf(gen.text) /\ second = PairsOf(gen.text))

\* C8 as amended: map_function(text) produces a lazy, finite, single-pass
\* sequence of (lowercased word, 1) pairs, one per token in token order; once
\* it was consumed to its end, iterating the same object again yields nothing.
C8_SinglePass ==
    (op = "map_function") =>
        /\ (pc = "iterating" /\ pass = 1) =>
              (Len(first) <= Len(PairsOf(gen.text))
               /\ first = SubSeq(PairsOf(gen.text), 1, Len(first)))
        /\ (pc \in {"exhausted", "reiterated"} \/ pass = 2) =>
              first = PairsOf(gen.text)
        /\ second = <<>>

C8_Witness ==
    /\ op = "map_function" /\ pc = "reiterated"
    /\ Len(first) >= 2
    /\ \E i \in 1..Len(gen.text) : gen.text[i] = "A"
    /\ second = <<>>

\* the counts of the pairs of p whose word is w, in the order of p
CountsOf(p, w) ==
    LET at == {i \in DOMAIN p : p[i][1] = w} IN
    [n \in 1..Cardinality(at) |->
        p[CHOOSE i \in at : Cardinality({k \in at : k < i}) = n - 1][2]]

\* C9: group_function maps exactly the distinct words of the pairs, each to
\* the list of its counts in the order the pairs appeared; apply_reduce maps
\* each word to the sum of its list.
C9_GroupThenReduce ==
    (pc \in {"grouped", "reduced"}) =>
        /\ DOMAIN grouped = {pairs[i][1] : i \in DOMAIN pairs}
        /\ \A w \in DOMAIN grouped : grouped[w] = CountsOf(pairs, w)
        /\ pc = "reduced" =>
              /\ DOMAIN ret = DOMAIN grouped
              /\ \A w \in DOMAIN ret : ret[w] = SumSeq(grouped[w])

\* [(a,1),(b,1),(a,1)] groups to {a:[1,1], b:[1]} and reduces to {a:2, b:1}
C9_Witness ==
    /\ op = "group_function" /\ pc = "reduced"
    /\ pairs = << <<<<"a">>, 1>>, <<<<"b">>, 1>>, <<<<"a">>, 1>> >>
    /\ grouped = [w \in {<<"a">>, <<"b">>} |-> IF w = <<"a">> THEN <<1, 1>> ELSE <<1>>]
    /\ ret = [w \in {<<"a">>, <<"b">>} |-> IF w = <<"a">> THEN 2 ELSE 1]

\* C10: when count_words_from_files ends, by a return or by an exception, no
\* file handle is open; a failure to open acquired none.
C10_HandleReleased ==
    (op = "count_words_from_files" /\ pc \in {"count", "returned", "raised"}) =>
        /\ handle # "open"
        /\ OpenFile(file) # NoError => handle = "none"
        /\ OpenFile(file) = NoError => handle = "closed"

C10_Witness ==
    /\ op = "count_words_from_files" /\ pc = "raised"
    /\ file.kind = "undecodable"
    /\ err.type = "UnicodeDecodeError"
    /\ handle = "closed"
====
